---- MODULE Spec2Model ----
(***************************************************************************)
(* Time-slot management of the doctor booking backend                      *)
(* (src/controllers/doctorController.js, handlers addTimeSlots,            *)
(* updateTimeSlot, deleteTimeSlot) over the Doctor document of             *)
(* src/unnamed/part_005 (models/Doctor.js).                                *)
(*                                                                         *)
(* A JavaScript string is a sequence of character codes.  Only the digits  *)
(* and the colon occur in time strings; they are numbered in the order of  *)
(* their UTF-16 code units ('0' < ... < '9' < ':'), which is the order the *)
(* relational operators of JavaScript compare strings by.                  *)
(***************************************************************************)
EXTENDS Integers, Sequences, FiniteSets, TLC

\* ------------------------------------------------------------------------
\* Strings

Colon == 10

\* An absent value (undefined): a request field that was not sent.  A value
\* that may be absent is a sequence of at most one element when it is a
\* boolean, and the empty sequence stands for an absent string.
Undefined == <<>>
Some(x) == <<x>>

T0800s == <<8, Colon, 0, 0>>
T0915s == <<9, Colon, 1, 5>>
T0900 == <<0, 9, Colon, 0, 0>>
T0930 == <<0, 9, Colon, 3, 0>>
T0945 == <<0, 9, Colon, 4, 5>>
T1000 == <<1, 0, Colon, 0, 0>>
T2400 == <<2, 4, Colon, 0, 0>>

IsDigit(c) == c \in 0..9

\* s < t on JavaScript strings: code-unit-wise, a proper prefix is smaller.
StrLt(s, t) ==
    \E i \in 1..Len(t) :
        /\ \A j \in 1..(i - 1) : j <= Len(s) /\ s[j] = t[j]
        /\ \/ i = Len(s) + 1
           \/ i <= Len(s) /\ s[i] < t[i]

StrLe(s, t) == s = t \/ StrLt(s, t)
StrGt(s, t) == StrLt(t, s)
StrGe(s, t) == StrLe(t, s)

\* A pattern that lets the hour run to 24: /^([0-1]?[0-9]|2[0-4]):[0-5][0-9]$/
timeRegexTestTo24(s) ==
       \/ /\ Len(s) = 4
          /\ IsDigit(s[1])
          /\ s[2] = Colon /\ s[3] \in 0..5 /\ IsDigit(s[4])
       \/ /\ Len(s) = 5
          /\ \/ s[1] \in 0..1 /\ IsDigit(s[2])
             \/ s[1] = 2 /\ s[2] \in 0..4
          /\ s[3] = Colon /\ s[4] \in 0..5 /\ IsDigit(s[5])

\* /^([0-1]?[0-9]|2[0-3]):[0-5][0-9]$/.test(s)
timeRegexTest(s) ==
       \/ /\ Len(s) = 4
          /\ IsDigit(s[1])
          /\ s[2] = Colon /\ s[3] \in 0..5 /\ IsDigit(s[4])
       \/ /\ Len(s) = 5
          /\ \/ s[1] \in 0..1 /\ IsDigit(s[2])
             \/ s[1] = 2 /\ s[2] \in 0..3
          /\ s[3] = Colon /\ s[4] \in 0..5 /\ IsDigit(s[5])

\* ------------------------------------------------------------------------
\* new Date(`1970-01-01T${s}:00`) for a string s that passed timeRegexTest.
\* The argument is an ISO date-time only when the hour has two digits; with
\* a one-digit hour ("9:00") the engine the server runs on (Node.js, V8)
\* yields an Invalid Date, whose time value is NaN.  The value is kept in
\* minutes since local midnight; NaN is the value below.

NaN == -1

DateOf(s) ==
    IF Len(s) = 5
    THEN (s[1] * 10 + s[2]) * 60 + s[4] * 10 + s[5]
    ELSE NaN

\* Relational operators on the time values: every comparison with NaN is false.
NumGe(a, b) == a # NaN /\ b # NaN /\ a >= b

\* (end - start) / (1000 * 60)
Minus(a, b) == IF a = NaN \/ b = NaN THEN NaN ELSE a - b
NumLt(a, b) == a # NaN /\ b # NaN /\ a < b

\* ------------------------------------------------------------------------
\* addTimeSlots: validation of one submitted slot (the callback of slots.map)

validDays ==
    {"Monday", "Tuesday", "Wednesday", "Thursday", "Friday", "Saturday", "Sunday"}

MinDuration == 30

ErrMissing == "Each slot must have day, startTime, and endTime"
ErrDay == "Invalid day"
ErrFormat == "Time must be in HH:MM format (24-hour)"
ErrOrder == "Start time must be before end time"
ErrDuration == "Minimum slot duration is 30 minutes"
ErrOverlap == "Slot overlaps with existing slot"
NoError == "none"

\* The message of the Error the callback throws for `slot`, NoError if it
\* returns.
SlotError(slot) ==
    IF slot.day = "" \/ slot.startTime = Undefined \/ slot.endTime = Undefined
    THEN ErrMissing
    ELSE IF slot.day \notin validDays
    THEN ErrDay
    ELSE IF ~timeRegexTest(slot.startTime) \/ ~timeRegexTest(slot.endTime)
    THEN ErrFormat
    ELSE IF NumGe(DateOf(slot.startTime), DateOf(slot.endTime))
    THEN ErrOrder
    ELSE IF NumLt(Minus(DateOf(slot.endTime), DateOf(slot.startTime)), MinDuration)
    THEN ErrDuration
    ELSE NoError

\* The object the callback returns: isAvailable: slot.isAvailable !== false
ValidatedSlot(slot) ==
    [day |-> slot.day, startTime |-> slot.startTime, endTime |-> slot.endTime,
     isAvailable |-> slot.isAvailable # Some(FALSE)]

\* slots.map(...) throws at the first slot, in index order, whose callback throws.
FirstInvalid(slots) ==
    IF \E i \in 1..Len(slots) : SlotError(slots[i]) # NoError
    THEN CHOOSE i \in 1..Len(slots) :
            /\ SlotError(slots[i]) # NoError
            /\ \A j \in 1..(i - 1) : SlotError(slots[j]) = NoError
    ELSE 0

\* The comparisons without the second one (the new end inside the existing slot).
SlotsOverlapNoEndInside(newSlot, existing) ==
    /\ existing.day = newSlot.day
    /\ \/ StrGe(newSlot.startTime, existing.startTime)
          /\ StrLt(newSlot.startTime, existing.endTime)
       \/ StrLe(newSlot.startTime, existing.startTime)
          /\ StrGe(newSlot.endTime, existing.endTime)

\* The predicate of doctor.availableSlots.find(...) in addTimeSlots and of
\* doctor.availableSlots.some(...) in updateTimeSlot: three comparisons of
\* the time strings.
SlotsOverlap(newSlot, existing) ==
    /\ existing.day = newSlot.day
    /\ \/ StrGe(newSlot.startTime, existing.startTime)
          /\ StrLt(newSlot.startTime, existing.endTime)
       \/ StrGt(newSlot.endTime, existing.startTime)
          /\ StrLe(newSlot.endTime, existing.endTime)
       \/ StrLe(newSlot.startTime, existing.startTime)
          /\ StrGe(newSlot.endTime, existing.endTime)

\* A check that also compares the new slots with each other.
BatchOverlapsWithinToo(validated, availableSlots) ==
    \/ \E i \in 1..Len(validated) : \E k \in 1..Len(availableSlots) :
            SlotsOverlap(validated[i], availableSlots[k])
    \/ \E i, j \in 1..Len(validated) :
            i # j /\ SlotsOverlap(validated[i], validated[j])

\* validatedSlots.forEach: does some new slot find an existing slot?
BatchOverlaps(validated, availableSlots) ==
    \E i \in 1..Len(validated) : \E k \in 1..Len(availableSlots) :
        SlotsOverlap(validated[i], availableSlots[k])

\* The catch block: the status by the text of the message.
AddErrorStatus(msg) ==
    IF msg \in {ErrDay, ErrFormat, ErrOrder, ErrDuration, ErrOverlap}
    THEN 400
    ELSE 500

\* The catch block: the error of the response, the message itself with 400.
AddErrorBody(msg) ==
    IF AddErrorStatus(msg) = 400
    THEN msg
    ELSE "Server error while adding time slots"

\* ------------------------------------------------------------------------
\* State

VARIABLES
    doctors,    \* the Doctor collection: user id -> the user's Doctor document
    nextId,     \* the ObjectIds handed out so far (a fresh _id is nextId)
    req,        \* the last request served
    resp,       \* the response to it
    before,     \* the Doctor collection when that request arrived
    inflight,   \* the handlers that run interleaved: where each one stands
    oneAtATime, \* the interleaved handlers are started one after the other
    users,      \* the User collection: user id -> role, isActive, isApproved
    approvedBy, \* user id -> the approvedBy field of the user's Doctor document is set
    appointments \* the Appointment collection, in the order of creation

vars == <<doctors, nextId, req, resp, before, inflight, oneAtATime, users, approvedBy, appointments>>

\* The handler runs that may be under way at once.
Handlers == {"h1", "h2"}

Idle == [pc |-> "idle"]

UserIds == {"u1", "u2"}

\* A registered account: active; a doctor's account waits for approval.
NewUser(role) ==
    [role |-> role, isActive |-> TRUE, isApproved |-> role # "doctor",
     isBlocked |-> FALSE]

\* A user without a Doctor document: Doctor.findOne(...) returns null.
NoDoctor == [profile |-> FALSE, availableSlots |-> <<>>]
NewDoctor == [profile |-> TRUE, availableSlots |-> <<>>]

NoData == [none |-> TRUE]

Reply(status, error, data, docs, idc) ==
    [status |-> status, error |-> error, data |-> data, doctors |-> docs, nextId |-> idc]

\* A push that gives every object of one call the same _id.
SubdocsOneId(validated, idc) ==
    [i \in 1..Len(validated) |->
        [id |-> idc,
         day |-> validated[i].day,
         startTime |-> validated[i].startTime,
         endTime |-> validated[i].endTime,
         isAvailable |-> validated[i].isAvailable]]

\* doctor.availableSlots.push(...validatedSlots): each pushed object becomes
\* a subdocument with a fresh _id; the pushed plain objects are not changed.
Subdocs(validated, idc) ==
    [i \in 1..Len(validated) |->
        [id |-> idc + i - 1,
         day |-> validated[i].day,
         startTime |-> validated[i].startTime,
         endTime |-> validated[i].endTime,
         isAvailable |-> validated[i].isAvailable]]

\* ------------------------------------------------------------------------
\* addTimeSlots(req, res), run from the request to the response

\* An addTimeSlots that makes the Doctor document when there is none.
addTimeSlotsUpserting(user, slots, docs, idc) ==
    LET doctor == docs[user.id]
        bad == FirstInvalid(slots)
        validatedSlots == [i \in 1..Len(slots) |-> ValidatedSlot(slots[i])]
        pushed == doctor.availableSlots \o Subdocs(validatedSlots, idc)
    IN  IF user.role # "doctor"
        THEN Reply(403, "Only doctors can manage time slots", NoData, docs, idc)
        ELSE IF Len(slots) = 0
        THEN Reply(400, "Please provide at least one time slot", NoData, docs, idc)
        ELSE IF bad # 0
        THEN Reply(AddErrorStatus(SlotError(slots[bad])), AddErrorBody(SlotError(slots[bad])),
                   NoData, docs, idc)
        ELSE IF BatchOverlaps(validatedSlots, doctor.availableSlots)
        THEN Reply(AddErrorStatus(ErrOverlap), AddErrorBody(ErrOverlap), NoData, docs, idc)
        ELSE Reply(200, NoError,
                   [totalSlots |-> Len(pushed), newSlots |-> validatedSlots],
                   [docs EXCEPT ![user.id] = [profile |-> TRUE, availableSlots |-> pushed]],
                   idc + Len(slots))

addTimeSlots(user, slots, docs, idc) ==
    LET doctor == docs[user.id]
        bad == FirstInvalid(slots)
        validatedSlots == [i \in 1..Len(slots) |-> ValidatedSlot(slots[i])]
        pushed == doctor.availableSlots \o Subdocs(validatedSlots, idc)
    IN  IF user.role # "doctor"
        THEN Reply(403, "Only doctors can manage time slots", NoData, docs, idc)
        ELSE IF Len(slots) = 0
        THEN Reply(400, "Please provide at least one time slot", NoData, docs, idc)
        ELSE IF bad # 0
        THEN Reply(AddErrorStatus(SlotError(slots[bad])), AddErrorBody(SlotError(slots[bad])),
                   NoData, docs, idc)
        ELSE IF ~doctor.profile
        THEN Reply(404, "Doctor profile not found", NoData, docs, idc)
        ELSE IF BatchOverlaps(validatedSlots, doctor.availableSlots)
        THEN Reply(AddErrorStatus(ErrOverlap), AddErrorBody(ErrOverlap), NoData, docs, idc)
        ELSE Reply(200, NoError,
                   [totalSlots |-> Len(pushed), newSlots |-> validatedSlots],
                   [docs EXCEPT ![user.id].availableSlots = pushed],
                   idc + Len(slots))

\* ------------------------------------------------------------------------
\* updateTimeSlot(req, res)

\* A search that falls back to the first slot when no slot has the id.
FindIndexOrFirst(availableSlots, slotId) ==
    IF \E i \in 1..Len(availableSlots) : availableSlots[i].id = slotId
    THEN CHOOSE i \in 1..Len(availableSlots) : availableSlots[i].id = slotId
    ELSE IF Len(availableSlots) > 0 THEN 1 ELSE 0

\* doctor.availableSlots.findIndex(slot => slot._id.toString() === slotId);
\* 0 stands for the -1 of JavaScript (sequences start at 1).
FindIndex(availableSlots, slotId) ==
    IF \E i \in 1..Len(availableSlots) : availableSlots[i].id = slotId
    THEN CHOOSE i \in 1..Len(availableSlots) :
            /\ availableSlots[i].id = slotId
            /\ \A j \in 1..(i - 1) : availableSlots[j].id # slotId
    ELSE 0

\* The assignments with the flag falling back to true when it is not given.
AssignedFlagDefaulted(slot, body) ==
    [slot EXCEPT
        !.startTime = IF body.startTime # Undefined THEN body.startTime ELSE @,
        !.endTime = IF body.endTime # Undefined THEN body.endTime ELSE @,
        !.isAvailable = IF body.isAvailable # Undefined THEN body.isAvailable[1] ELSE TRUE]

\* The assignments of the two times only, the flag left as it was.
AssignedTimesOnly(slot, body) ==
    [slot EXCEPT
        !.startTime = IF body.startTime # Undefined THEN body.startTime ELSE @,
        !.endTime = IF body.endTime # Undefined THEN body.endTime ELSE @]

\* The slot after the three "update fields if provided" assignments.
Assigned(slot, body) ==
    [slot EXCEPT
        !.startTime = IF body.startTime # Undefined THEN body.startTime ELSE @,
        !.endTime = IF body.endTime # Undefined THEN body.endTime ELSE @,
        !.isAvailable = IF body.isAvailable # Undefined THEN body.isAvailable[1] ELSE @]

\* doctor.availableSlots.some((existingSlot, index) => ...), the slot at
\* slotIndex skipped.
HasOverlap(availableSlots, slotIndex, slot) ==
    \E index \in 1..Len(availableSlots) :
        /\ index # slotIndex
        /\ SlotsOverlap(slot, availableSlots[index])

\* A check of the two times that also asks for the 30 minutes.
UpdateOrderOrDurationError(slot) ==
    \/ NumGe(DateOf(slot.startTime), DateOf(slot.endTime))
    \/ NumLt(Minus(DateOf(slot.endTime), DateOf(slot.startTime)), MinDuration)

\* What the update path checks of the two times once either was supplied.
UpdateOrderError(slot) ==
    NumGe(DateOf(slot.startTime), DateOf(slot.endTime))

updateTimeSlot(user, slotId, body, docs, idc) ==
    LET doctor == docs[user.id]
        slotIndex == FindIndex(doctor.availableSlots, slotId)
        slot == Assigned(doctor.availableSlots[slotIndex], body)
        saved == [doctor.availableSlots EXCEPT ![slotIndex] = slot]
    IN  IF user.role # "doctor"
        THEN Reply(403, "Only doctors can update time slots", NoData, docs, idc)
        ELSE IF ~doctor.profile
        THEN Reply(404, "Doctor profile not found", NoData, docs, idc)
        ELSE IF slotIndex = 0
        THEN Reply(404, "Time slot not found", NoData, docs, idc)
        ELSE IF body.startTime # Undefined /\ ~timeRegexTest(body.startTime)
        THEN Reply(400, "Start time must be in HH:MM format (24-hour)", NoData, docs, idc)
        ELSE IF body.endTime # Undefined /\ ~timeRegexTest(body.endTime)
        THEN Reply(400, "End time must be in HH:MM format (24-hour)", NoData, docs, idc)
        ELSE IF (body.startTime # Undefined \/ body.endTime # Undefined)
                /\ UpdateOrderError(slot)
        THEN Reply(400, ErrOrder, NoData, docs, idc)
        ELSE IF (body.startTime # Undefined \/ body.endTime # Undefined)
                /\ HasOverlap(doctor.availableSlots, slotIndex, slot)
        THEN Reply(400, "Updated slot overlaps with existing slot", NoData, docs, idc)
        ELSE Reply(200, NoError, [slot |-> slot],
                   [docs EXCEPT ![user.id].availableSlots = saved], idc)

\* ------------------------------------------------------------------------
\* deleteTimeSlot(req, res)

\* A filter whose test never fails (an ObjectId compared with a string).
FilteredNothing(availableSlots, slotId) == availableSlots

\* doctor.availableSlots.filter(slot => slot._id.toString() !== slotId)
Filtered(availableSlots, slotId) ==
    SelectSeq(availableSlots, LAMBDA slot : slot.id # slotId)

\* A deleteTimeSlot that looks the slot up in every doctor's document.
deleteTimeSlotAnyOwner(user, slotId, docs, idc) ==
    LET owners == {u \in DOMAIN docs :
                    \E i \in 1..Len(docs[u].availableSlots) :
                        docs[u].availableSlots[i].id = slotId}
        owner == CHOOSE u \in owners : TRUE
        kept == Filtered(docs[owner].availableSlots, slotId)
    IN  IF user.role # "doctor"
        THEN Reply(403, "Only doctors can delete time slots", NoData, docs, idc)
        ELSE IF ~docs[user.id].profile
        THEN Reply(404, "Doctor profile not found", NoData, docs, idc)
        ELSE IF owners = {}
        THEN Reply(404, "Time slot not found", NoData, docs, idc)
        ELSE Reply(200, NoError, [remainingSlots |-> Len(kept)],
                   [docs EXCEPT ![owner].availableSlots = kept], idc)

deleteTimeSlot(user, slotId, docs, idc) ==
    LET doctor == docs[user.id]
        initialLength == Len(doctor.availableSlots)
        kept == Filtered(doctor.availableSlots, slotId)
    IN  IF user.role # "doctor"
        THEN Reply(403, "Only doctors can delete time slots", NoData, docs, idc)
        ELSE IF ~doctor.profile
        THEN Reply(404, "Doctor profile not found", NoData, docs, idc)
        ELSE IF Len(kept) = initialLength
        THEN Reply(404, "Time slot not found", NoData, docs, idc)
        ELSE Reply(200, NoError, [remainingSlots |-> Len(kept)],
                   [docs EXCEPT ![user.id].availableSlots = kept], idc)

\* ------------------------------------------------------------------------
\* The requests served one at a time by one doctor

MaxSlots == 2
MaxBatch == 2

\* The ObjectIds that exist: as many as slots can be stored.
MaxIds == MaxSlots

SlotIn(day, startTime, endTime, isAvailable) ==
    [day |-> day, startTime |-> startTime, endTime |-> endTime,
     isAvailable |-> isAvailable]

\* The slots a request may submit, hours written with two digits: on Monday
\* the four slots of 30 minutes or more between 09:00 and 10:00, one of 15
\* minutes and one that ends before it starts; and one slot for each other
\* shape (another day and blocked, a day that is no weekday, a malformed
\* start, a malformed end).
SlotInputs ==
    {SlotIn("Monday", T0900, T0930, Undefined),
     SlotIn("Monday", T0930, T1000, Undefined),
     SlotIn("Monday", T0900, T0945, Undefined),
     SlotIn("Monday", T0900, T1000, Some(TRUE)),
     SlotIn("Monday", T0930, T0945, Undefined),
     SlotIn("Monday", T1000, T0900, Undefined),
     SlotIn("Tuesday", T0900, T0945, Some(FALSE)),
     SlotIn("Funday", T0900, T1000, Undefined),
     SlotIn("Monday", T2400, T1000, Undefined),
     SlotIn("Monday", T0900, T2400, Undefined)}

TimesIn == {T0900, T0930, T0945, T1000, T2400}

BatchesOf(inputs) == UNION {[1..n -> inputs] : n \in 1..MaxBatch}

UpdateBodiesOf(times, flags) ==
    [startTime : times \cup {Undefined}, endTime : times \cup {Undefined},
     isAvailable : flags \cup {Undefined}]

\* The slot ids a request may name.
SlotIds == 1..MaxIds

TheDoctor == [id |-> "u1", role |-> "doctor"]

NoRequest == [op |-> "none"]
NoResponse == [status |-> 0]

Init ==
    /\ doctors = [u \in UserIds |-> IF u = "u1" THEN NewDoctor ELSE NoDoctor]
    /\ nextId = 1
    /\ req = NoRequest
    /\ resp = NoResponse
    /\ before = doctors
    /\ inflight = [h \in Handlers |-> Idle]
    /\ oneAtATime = TRUE
    /\ users = [u \in UserIds |-> NewUser("doctor")]
    /\ approvedBy = [u \in UserIds |-> FALSE]
    /\ appointments = <<>>

\* One request handled from its arrival to its response.
Serve(request, reply) ==
    /\ req = NoRequest
    /\ req' = request
    /\ resp' = [status |-> reply.status, error |-> reply.error, data |-> reply.data]
    /\ before' = doctors
    /\ doctors' = reply.doctors
    /\ nextId' = reply.nextId
    /\ UNCHANGED <<inflight, oneAtATime, users, approvedBy, appointments>>

AddTimeSlots(user, slots) ==
    /\ Len(doctors[user.id].availableSlots) + Len(slots) <= MaxSlots
    /\ nextId + Len(slots) - 1 <= MaxIds
    /\ Serve([op |-> "addTimeSlots", user |-> user, slots |-> slots],
             addTimeSlots(user, slots, doctors, nextId))

UpdateTimeSlot(user, slotId, body) ==
    Serve([op |-> "updateTimeSlot", user |-> user, slotId |-> slotId, body |-> body],
          updateTimeSlot(user, slotId, body, doctors, nextId))

DeleteTimeSlot(user, slotId) ==
    Serve([op |-> "deleteTimeSlot", user |-> user, slotId |-> slotId],
          deleteTimeSlot(user, slotId, doctors, nextId))

\* The client has read the response; the server takes the next request.
Received ==
    /\ req # NoRequest
    /\ req' = NoRequest
    /\ resp' = NoResponse
    /\ before' = doctors
    /\ UNCHANGED <<doctors, nextId, inflight, oneAtATime, users, approvedBy, appointments>>

Next ==
    \/ \E slots \in BatchesOf(SlotInputs) : AddTimeSlots(TheDoctor, slots)
    \/ \E slotId \in SlotIds, body \in UpdateBodiesOf(TimesIn, {Some(TRUE), Some(FALSE)}) :
            UpdateTimeSlot(TheDoctor, slotId, body)
    \/ \E slotId \in SlotIds : DeleteTimeSlot(TheDoctor, slotId)
    \/ Received

Spec == Init /\ [][Next]_vars

\* ------------------------------------------------------------------------
\* The same requests with hours written with one digit among the times

TimesHours == {T0900, T0945, T1000, T0915s}

SlotInputsHours == {SlotIn("Monday", s, e, Undefined) : s, e \in TimesHours}

NextHours ==
    \/ \E slots \in BatchesOf(SlotInputsHours) : AddTimeSlots(TheDoctor, slots)
    \/ \E slotId \in SlotIds, body \in UpdateBodiesOf(TimesHours, {}) :
            UpdateTimeSlot(TheDoctor, slotId, body)
    \/ \E slotId \in SlotIds : DeleteTimeSlot(TheDoctor, slotId)
    \/ Received

SpecHours == Init /\ [][NextHours]_vars

\* ------------------------------------------------------------------------
\* Handlers that interleave.  A handler gives up control at its two awaits:
\* Doctor.findOne, which hands it the document as stored at that moment, and
\* doctor.save, which sends to the database what the handler changed in its
\* copy: pushed subdocuments as a $push onto the stored array, assigned
\* fields of an array element as a $set of those paths, an assigned array as
\* a $set of the whole array.  A $push and a $set of the array raise the
\* document's version; a $set inside or of the array is sent on the condition
\* that the version is the one the handler read, and fails otherwise
\* (the handler then answers 500 from its catch block).  `stale` records for
\* a handler that the version was raised after it read the document.

\* await doctor.save() of addTimeSlots: $push of the new subdocuments.
SavePushed(stored, validated, idc) == stored \o Subdocs(validated, idc)

\* await doctor.save() of updateTimeSlot: $set of the fields of the element
\* at slotIndex that the handler gave a new value.
SaveAssigned(stored, read, slotIndex, slot) ==
    [stored EXCEPT ![slotIndex] =
        [@ EXCEPT
            !.startTime = IF slot.startTime # read[slotIndex].startTime
                          THEN slot.startTime ELSE @,
            !.endTime = IF slot.endTime # read[slotIndex].endTime
                        THEN slot.endTime ELSE @,
            !.isAvailable = IF slot.isAvailable # read[slotIndex].isAvailable
                            THEN slot.isAvailable ELSE @]]

\* Saves that leave the copies the other handlers read earlier current.
MarkStaleNever(h, userId) == inflight

\* The other handlers that hold a copy of the user's document read earlier.
MarkStale(h, userId) ==
    [g \in Handlers |->
        IF g # h /\ inflight[g].pc = "loaded" /\ inflight[g].req.user.id = userId
        THEN [inflight[g] EXCEPT !.stale = TRUE]
        ELSE inflight[g]]

Done(request, status, error) ==
    [pc |-> "done", req |-> request, status |-> status, error |-> error]

\* A request arrives and its handler runs up to the answer of Doctor.findOne.
Load(h, request) ==
    /\ inflight[h].pc = "idle"
    /\ oneAtATime => \A g \in Handlers : inflight[g].pc # "loaded"
    /\ inflight' = [inflight EXCEPT ![h] =
            [pc |-> "loaded", req |-> request,
             doctor |-> doctors[request.user.id], stale |-> FALSE]]
    /\ UNCHANGED <<doctors, nextId, req, resp, before, oneAtATime, users, approvedBy, appointments>>

\* The copy of the collection the handler h works on.
Read(h) == [doctors EXCEPT ![inflight[h].req.user.id] = inflight[h].doctor]

\* addTimeSlots from the answer of findOne to the response.
AddFinish(h) ==
    /\ inflight[h].pc = "loaded"
    /\ inflight[h].req.op = "addTimeSlots"
    /\ LET request == inflight[h].req
           u == request.user.id
           reply == addTimeSlots(request.user, request.slots, Read(h), nextId)
           validatedSlots ==
               [i \in 1..Len(request.slots) |-> ValidatedSlot(request.slots[i])]
       IN  IF reply.status = 200
           THEN /\ doctors' = [doctors EXCEPT ![u].availableSlots =
                        SavePushed(@, validatedSlots, nextId)]
                /\ nextId' = reply.nextId
                /\ inflight' = [MarkStale(h, u) EXCEPT
                        ![h] = Done(request, 200, NoError)]
           ELSE /\ UNCHANGED <<doctors, nextId>>
                /\ inflight' = [inflight EXCEPT
                        ![h] = Done(request, reply.status, reply.error)]
    /\ UNCHANGED <<req, resp, before, oneAtATime, users, approvedBy, appointments>>

\* updateTimeSlot from the answer of findOne to the response.
UpdateFinish(h) ==
    /\ inflight[h].pc = "loaded"
    /\ inflight[h].req.op = "updateTimeSlot"
    /\ LET request == inflight[h].req
           u == request.user.id
           reply == updateTimeSlot(request.user, request.slotId, request.body,
                                   Read(h), nextId)
           read == inflight[h].doctor.availableSlots
           slotIndex == FindIndex(read, request.slotId)
       IN  IF reply.status # 200
           THEN /\ UNCHANGED doctors
                /\ inflight' = [inflight EXCEPT
                        ![h] = Done(request, reply.status, reply.error)]
           ELSE IF reply.data.slot = read[slotIndex]
           THEN /\ UNCHANGED doctors
                /\ inflight' = [inflight EXCEPT ![h] = Done(request, 200, NoError)]
           ELSE IF inflight[h].stale
           THEN /\ UNCHANGED doctors
                /\ inflight' = [inflight EXCEPT ![h] =
                        Done(request, 500, "Server error while updating time slot")]
           ELSE /\ doctors' = [doctors EXCEPT ![u].availableSlots =
                        SaveAssigned(@, read, slotIndex, reply.data.slot)]
                /\ inflight' = [inflight EXCEPT ![h] = Done(request, 200, NoError)]
    /\ UNCHANGED <<nextId, req, resp, before, oneAtATime, users, approvedBy, appointments>>

\* deleteTimeSlot from the answer of findOne to the response.
DeleteFinish(h) ==
    /\ inflight[h].pc = "loaded"
    /\ inflight[h].req.op = "deleteTimeSlot"
    /\ LET request == inflight[h].req
           u == request.user.id
           reply == deleteTimeSlot(request.user, request.slotId, Read(h), nextId)
       IN  IF reply.status # 200
           THEN /\ UNCHANGED doctors
                /\ inflight' = [inflight EXCEPT
                        ![h] = Done(request, reply.status, reply.error)]
           ELSE IF inflight[h].stale
           THEN /\ UNCHANGED doctors
                /\ inflight' = [inflight EXCEPT ![h] =
                        Done(request, 500, "Server error while deleting time slot")]
           ELSE /\ doctors' = [doctors EXCEPT ![u].availableSlots =
                        reply.doctors[u].availableSlots]
                /\ inflight' = [MarkStale(h, u) EXCEPT
                        ![h] = Done(request, 200, NoError)]
    /\ UNCHANGED <<nextId, req, resp, before, oneAtATime, users, approvedBy, appointments>>

\* The client of h has read its response.
Respond(h) ==
    /\ inflight[h].pc = "done"
    /\ inflight' = [inflight EXCEPT ![h] = Idle]
    /\ UNCHANGED <<doctors, nextId, req, resp, before, oneAtATime, users, approvedBy, appointments>>

\* The requests of the interleaved runs: one slot each, on Monday, one of
\* them with an hour of one digit.
SlotInputsRace ==
    {SlotIn("Monday", T0900, T0945, Undefined),
     SlotIn("Monday", T0930, T1000, Undefined),
     SlotIn("Monday", T0900, T0930, Undefined),
     SlotIn("Monday", T0915s, T1000, Undefined)}

UpdateBodiesRace ==
    [startTime : {Undefined, T0930, T0945}, endTime : {Undefined, T0945},
     isAvailable : {Undefined}]

RequestsRace ==
    {[op |-> "addTimeSlots", user |-> TheDoctor, slots |-> <<slot>>] :
        slot \in SlotInputsRace}
    \cup {[op |-> "updateTimeSlot", user |-> TheDoctor, slotId |-> slotId, body |-> body] :
            slotId \in SlotIds, body \in UpdateBodiesRace}
    \cup {[op |-> "deleteTimeSlot", user |-> TheDoctor, slotId |-> slotId] :
            slotId \in SlotIds}

InitRace ==
    /\ doctors = [u \in UserIds |-> IF u = "u1" THEN NewDoctor ELSE NoDoctor]
    /\ nextId = 1
    /\ req = NoRequest
    /\ resp = NoResponse
    /\ before = doctors
    /\ inflight = [h \in Handlers |-> Idle]
    /\ oneAtATime \in BOOLEAN
    /\ users = [u \in UserIds |-> NewUser("doctor")]
    /\ approvedBy = [u \in UserIds |-> FALSE]
    /\ appointments = <<>>

NextRace ==
    \/ \E h \in Handlers, request \in RequestsRace :
            /\ request.op = "addTimeSlots" =>
                    /\ Len(doctors[request.user.id].availableSlots)
                         + Cardinality({g \in Handlers :
                                /\ inflight[g].pc = "loaded"
                                /\ inflight[g].req.op = "addTimeSlots"}) < MaxSlots
                    /\ nextId + Cardinality({g \in Handlers :
                                /\ inflight[g].pc = "loaded"
                                /\ inflight[g].req.op = "addTimeSlots"}) <= MaxIds
            /\ Load(h, request)
    \/ \E h \in Handlers : AddFinish(h)
    \/ \E h \in Handlers : UpdateFinish(h)
    \/ \E h \in Handlers : DeleteFinish(h)
    \/ \E h \in Handlers : Respond(h)

SpecRace == InitRace /\ [][NextRace]_vars

\* ------------------------------------------------------------------------
\* What the properties speak of: times of day, and the slots of a collection

\* The time of day a string H:MM or HH:MM denotes, in minutes after midnight.
MinutesOf(s) ==
    IF Len(s) = 4
    THEN s[1] * 60 + s[3] * 10 + s[4]
    ELSE (s[1] * 10 + s[2]) * 60 + s[4] * 10 + s[5]

\* 24-hour HH:MM: an hour of one or two digits in 0..23, a colon, minutes 00..59.
IsClockTime(s) ==
    /\ Len(s) \in {4, 5}
    /\ s[Len(s) - 2] = Colon
    /\ \A i \in (1..Len(s)) \ {Len(s) - 2} : s[i] \in 0..9
    /\ MinutesOf(s) < 24 * 60
    /\ s[Len(s) - 1] * 10 + s[Len(s)] <= 59

\* Half-open intervals [start, end) of two slots of one day intersect.
Intersect(a, b) ==
    /\ a.day = b.day
    /\ MinutesOf(a.startTime) < MinutesOf(b.endTime)
    /\ MinutesOf(b.startTime) < MinutesOf(a.endTime)

Weekdays ==
    {"Monday", "Tuesday", "Wednesday", "Thursday", "Friday", "Saturday", "Sunday"}

StoredOf(docs, u) == docs[u].availableSlots
Stored == StoredOf(doctors, "u1")
StoredBefore == StoredOf(before, "u1")

Added == req.op = "addTimeSlots"
Updated == req.op = "updateTimeSlot"
Deleted == req.op = "deleteTimeSlot"

\* The rules a submitted slot must meet, read on the times of day.
BreaksRule(slot) ==
    \/ slot.day \notin Weekdays
    \/ ~IsClockTime(slot.startTime)
    \/ ~IsClockTime(slot.endTime)
    \/ MinutesOf(slot.startTime) >= MinutesOf(slot.endTime)
    \/ MinutesOf(slot.endTime) - MinutesOf(slot.startTime) < 30

IntersectsStored(slot, stored) ==
    \E k \in 1..Len(stored) : Intersect(slot, stored[k])

\* ------------------------------------------------------------------------
\* Properties

\* C1: no two stored slots of the doctor on the same day overlap, where A
\* and B overlap iff A.start < B.end and B.start < A.end on the times of day.
C1_NoStoredOverlap ==
    \A i, j \in 1..Len(Stored) : i < j => ~Intersect(Stored[i], Stored[j])

\* C2: every stored slot lasts at least 30 minutes.
C2_StoredDuration ==
    \A i \in 1..Len(Stored) :
        MinutesOf(Stored[i].endTime) - MinutesOf(Stored[i].startTime) >= 30

\* C3: every stored slot starts strictly before it ends, as times of day,
\* hours of one digit included.
C3_StoredOrder ==
    \A i \in 1..Len(Stored) :
        MinutesOf(Stored[i].startTime) < MinutesOf(Stored[i].endTime)

\* C4: every stored slot has a weekday name as its day and 24-hour HH:MM
\* strings as its start and end.
C4_StoredDayAndFormat ==
    \A i \in 1..Len(Stored) :
        /\ Stored[i].day \in Weekdays
        /\ IsClockTime(Stored[i].startTime)
        /\ IsClockTime(Stored[i].endTime)

\* C4 is met where it says something: two slots are stored, the last request
\* was an update that gave a new end time and was accepted.
C4_Witness ==
    /\ Updated /\ resp.status = 200
    /\ req.body.endTime # Undefined
    /\ Len(Stored) = 2
    /\ Stored # StoredBefore

\* C5: an addSlots batch with a slot that breaks a rule or overlaps a stored
\* slot of its day stores nothing: the collection is as before the call.
C5_AllOrNothing ==
    Added =>
        ((\E i \in 1..Len(req.slots) :
              BreaksRule(req.slots[i]) \/ IntersectsStored(req.slots[i], StoredBefore))
         => resp.status # 200 /\ doctors = before)

\* C6: addSlots answers a batch of rule-abiding slots with the overlap error
\* (400) when one of them overlaps a stored slot of its day, and accepts it
\* when none does (touching a stored slot, or lying on another day).
C6_OverlapDecision ==
    (Added /\ \A i \in 1..Len(req.slots) : ~BreaksRule(req.slots[i])) =>
        IF \E i \in 1..Len(req.slots) : IntersectsStored(req.slots[i], StoredBefore)
        THEN resp.status = 400 /\ resp.error = ErrOverlap /\ doctors = before
        ELSE resp.status = 200

\* C7: an accepted batch of n slots on k stored ones leaves the k slots
\* followed by the n of the batch, reports totalSlots = k + n, and returns
\* in newSlots every slot with the id it was stored under.
C7_AddResult ==
    (Added /\ resp.status = 200) =>
        LET k == Len(StoredBefore)
            n == Len(req.slots)
        IN  /\ Len(Stored) = k + n
            /\ SubSeq(Stored, 1, k) = StoredBefore
            /\ \A i \in 1..n :
                /\ Stored[k + i].day = req.slots[i].day
                /\ Stored[k + i].startTime = req.slots[i].startTime
                /\ Stored[k + i].endTime = req.slots[i].endTime
            /\ resp.data.totalSlots = k + n
            /\ Len(resp.data.newSlots) = n
            /\ \A i \in 1..n :
                /\ "id" \in DOMAIN resp.data.newSlots[i]
                /\ resp.data.newSlots[i].id = Stored[k + i].id

\* The position before the request of the slot the request names (0: none).
Addressed ==
    IF \E i \in 1..Len(StoredBefore) : StoredBefore[i].id = req.slotId
    THEN CHOOSE i \in 1..Len(StoredBefore) : StoredBefore[i].id = req.slotId
    ELSE 0

\* The interval the request asks the addressed slot to have.
Asked ==
    [day |-> StoredBefore[Addressed].day,
     startTime |-> IF req.body.startTime = Undefined
                   THEN StoredBefore[Addressed].startTime ELSE req.body.startTime,
     endTime |-> IF req.body.endTime = Undefined
                 THEN StoredBefore[Addressed].endTime ELSE req.body.endTime]

AskedIsBad ==
    \/ ~IsClockTime(Asked.startTime)
    \/ ~IsClockTime(Asked.endTime)
    \/ MinutesOf(Asked.startTime) >= MinutesOf(Asked.endTime)
    \/ \E k \in 1..Len(StoredBefore) :
            k # Addressed /\ Intersect(Asked, StoredBefore[k])

\* C9: an update that gives a start or an end is answered 400 when the
\* resulting interval is malformed, has start >= end or overlaps another
\* stored slot of the day; the slot itself does not count as overlapping (its
\* own current times are accepted); a rejected update changes nothing stored.
C9_UpdateRejection ==
    (Updated /\ Addressed # 0
        /\ (req.body.startTime # Undefined \/ req.body.endTime # Undefined)) =>
        /\ AskedIsBad => resp.status = 400
        /\ (/\ ~AskedIsBad
            /\ Asked.startTime = StoredBefore[Addressed].startTime
            /\ Asked.endTime = StoredBefore[Addressed].endTime) => resp.status = 200
        /\ resp.status # 200 => doctors = before

\* C10: an accepted update changes, of the addressed slot, only the fields
\* the body gives among startTime, endTime and isAvailable; its id and day,
\* every other slot and the number of slots stay.
C10_UpdateFrame ==
    (Updated /\ resp.status = 200) =>
        /\ Len(Stored) = Len(StoredBefore)
        /\ \A u \in UserIds \ {req.user.id} : doctors[u] = before[u]
        /\ \A i \in 1..Len(StoredBefore) :
            IF StoredBefore[i].id = req.slotId
            THEN /\ Stored[i].id = StoredBefore[i].id
                 /\ Stored[i].day = StoredBefore[i].day
                 /\ Stored[i].startTime =
                        (IF req.body.startTime = Undefined
                         THEN StoredBefore[i].startTime ELSE req.body.startTime)
                 /\ Stored[i].endTime =
                        (IF req.body.endTime = Undefined
                         THEN StoredBefore[i].endTime ELSE req.body.endTime)
                 /\ Stored[i].isAvailable =
                        (IF req.body.isAvailable = Undefined
                         THEN StoredBefore[i].isAvailable ELSE req.body.isAvailable[1])
            ELSE Stored[i] = StoredBefore[i]

\* C10 is met where it says something: an accepted update that gave only an
\* end time, on a blocked slot with another slot stored beside it.
C10_Witness ==
    /\ Updated /\ resp.status = 200
    /\ req.body.startTime = Undefined
    /\ req.body.endTime # Undefined
    /\ req.body.isAvailable = Undefined
    /\ Len(Stored) = 2
    /\ Stored # StoredBefore
    /\ \E i \in 1..2 : Stored[i].id = req.slotId /\ ~Stored[i].isAvailable

\* Both times of the slot are written with a two-digit hour.
TwoDigitHours(slot) == Len(slot.startTime) = 5 /\ Len(slot.endTime) = 5

\* C8: single-slot requests run one at a time never leave stored two
\* overlapping slots of a day whose hours are written with two digits;
\* interleaved, two addSlots or updateSlot requests can both be accepted and
\* leave such a pair (C8_Witness).
C8_OneAtATimeNoOverlap ==
    oneAtATime =>
        \A i, j \in 1..Len(Stored) :
            (i < j /\ TwoDigitHours(Stored[i]) /\ TwoDigitHours(Stored[j]))
                => ~Intersect(Stored[i], Stored[j])

\* C8 is met where it says something: two interleaved addSlots or updateSlot
\* requests were both accepted and two stored slots of a day, hours written
\* with two digits, overlap.
C8_Witness ==
    /\ ~oneAtATime
    /\ \A h \in Handlers :
        /\ inflight[h].pc = "done"
        /\ inflight[h].status = 200
        /\ inflight[h].req.op \in {"addTimeSlots", "updateTimeSlot"}
    /\ \E i, j \in 1..Len(Stored) :
        /\ i < j
        /\ TwoDigitHours(Stored[i]) /\ TwoDigitHours(Stored[j])
        /\ Intersect(Stored[i], Stored[j])

\* The request gives isAvailable and neither time.
FlagOnly ==
    /\ req.body.startTime = Undefined
    /\ req.body.endTime = Undefined
    /\ req.body.isAvailable # Undefined

\* C11: an update that gives only isAvailable is accepted for every stored
\* slot, whatever its flag and whatever the other stored slots are (also
\* when it overlaps one of them), and the flag given is the flag stored.
C11_FlagOnlyUpdate ==
    (Updated /\ Addressed # 0 /\ FlagOnly) =>
        /\ resp.status = 200
        /\ Stored[Addressed].isAvailable = req.body.isAvailable[1]

\* C11 is met where it says something: a blocked slot that overlaps another
\* stored slot of its day was made available again by a flag-only update.
C11_Witness ==
    /\ Updated /\ Addressed # 0 /\ FlagOnly
    /\ resp.status = 200
    /\ ~StoredBefore[Addressed].isAvailable
    /\ Stored[Addressed].isAvailable
    /\ \E k \in 1..Len(Stored) : k # Addressed /\ Intersect(Stored[Addressed], Stored[k])

\* C12: an update that names an id no stored slot of the doctor has is
\* answered 404 and changes nothing stored, whatever the body gives.
C12_UpdateUnknownId ==
    (Updated /\ Addressed = 0) => (resp.status = 404 /\ doctors = before)

\* C12 is met where it says something: slots are stored, none has the id
\* named, and the body gives a malformed start time.
C12_Witness ==
    /\ Updated /\ Addressed = 0
    /\ Len(StoredBefore) > 0
    /\ req.body.startTime = T2400
    /\ resp.status = 404

\* ------------------------------------------------------------------------
\* getTimeSlots(req, res)

\* The keys slotsByDay starts with.
slotsByDayKeys ==
    {"Monday", "Tuesday", "Wednesday", "Thursday", "Friday", "Saturday", "Sunday"}

\* The slots of one day, in stored order.
OfDay(availableSlots, day) ==
    SelectSeq(availableSlots, LAMBDA slot : slot.day = day)

\* A grouping that keeps the days without slots.
WithEmptyDays(byDay) == byDay

\* A grouping without its empty days.
WithoutEmptyDays(byDay) ==
    [day \in {d \in DOMAIN byDay : Len(byDay[d]) > 0} |-> byDay[day]]

\* slotsByDay of getTimeSlots: every stored slot pushed under its day as
\* {id, startTime, endTime, isAvailable}, the empty days deleted afterwards.
SlotsByDay(availableSlots) ==
    WithoutEmptyDays(
        [day \in slotsByDayKeys |->
            LET ofDay == OfDay(availableSlots, day)
            IN  [i \in 1..Len(ofDay) |->
                    [id |-> ofDay[i].id,
                     startTime |-> ofDay[i].startTime,
                     endTime |-> ofDay[i].endTime,
                     isAvailable |-> ofDay[i].isAvailable]]])

\* A role check that lets every role but the patient's through.
IsDoctorOrAdmin(user) == user.role # "patient"

\* req.user.role !== 'doctor', negated.
IsDoctor(user) == user.role = "doctor"

\* A getTimeSlots that drops the blocked slots from the document and saves it.
getTimeSlotsPruning(user, docs, idc) ==
    LET doctor == docs[user.id]
        kept == SelectSeq(doctor.availableSlots, LAMBDA slot : slot.isAvailable)
    IN  IF ~IsDoctor(user)
        THEN Reply(403, "Only doctors can view time slots", NoData, docs, idc)
        ELSE IF ~doctor.profile
        THEN Reply(404, "Doctor profile not found", NoData, docs, idc)
        ELSE Reply(200, NoError,
                   [totalSlots |-> Len(doctor.availableSlots),
                    slotsByDay |-> SlotsByDay(doctor.availableSlots),
                    allSlots |-> doctor.availableSlots],
                   [docs EXCEPT ![user.id].availableSlots = kept], idc)

getTimeSlots(user, docs, idc) ==
    LET doctor == docs[user.id]
    IN  IF ~IsDoctor(user)
        THEN Reply(403, "Only doctors can view time slots", NoData, docs, idc)
        ELSE IF ~doctor.profile
        THEN Reply(404, "Doctor profile not found", NoData, docs, idc)
        ELSE IF \E i \in 1..Len(doctor.availableSlots) :
                    doctor.availableSlots[i].day \notin slotsByDayKeys
        THEN Reply(500, "Server error while fetching time slots", NoData, docs, idc)
        ELSE Reply(200, NoError,
                   [totalSlots |-> Len(doctor.availableSlots),
                    slotsByDay |-> SlotsByDay(doctor.availableSlots),
                    allSlots |-> doctor.availableSlots],
                   docs, idc)

\* ------------------------------------------------------------------------
\* getAvailableSlotsForPatients(req, res)
\*
\* A Doctor document is named here by the id of its user (userId is unique in
\* the schema), so doctorId ranges over user ids.  A doctorId that is no
\* ObjectId at all makes Doctor.findById reject with a CastError, which the
\* catch block answers.

MalformedId == "not-an-id"

\* A filter that lets every slot through.
EverySlot(availableSlots) == availableSlots

\* doctor.availableSlots.filter(slot => slot.isAvailable)
OnlyAvailable(availableSlots) ==
    SelectSeq(availableSlots, LAMBDA slot : slot.isAvailable)

\* slotsByDay of getAvailableSlotsForPatients: a key is made when the first
\* slot of the day is pushed; the entries are {startTime, endTime, slotId}.
AvailableByDay(availableSlots) ==
    [day \in {availableSlots[i].day : i \in 1..Len(availableSlots)} |->
        LET ofDay == OfDay(availableSlots, day)
        IN  [i \in 1..Len(ofDay) |->
                [startTime |-> ofDay[i].startTime,
                 endTime |-> ofDay[i].endTime,
                 slotId |-> ofDay[i].id]]]

\* A test of the approval grant alone.
ApprovedOnly(doctorId, usrs, appr) == appr[doctorId]

\* !(!doctor.approvedBy || !doctor.userId.isActive)
ApprovedAndActive(doctorId, usrs, appr) ==
    appr[doctorId] /\ usrs[doctorId].isActive

getAvailableSlotsForPatients(doctorId, docs, usrs, appr, idc) ==
    IF doctorId = MalformedId
    THEN Reply(500, "Server error while fetching available slots", NoData, docs, idc)
    ELSE IF ~docs[doctorId].profile
    THEN Reply(404, "Doctor not found", NoData, docs, idc)
    ELSE IF ~ApprovedAndActive(doctorId, usrs, appr)
    THEN Reply(400, "Doctor is not available for appointments", NoData, docs, idc)
    ELSE LET availableSlots == OnlyAvailable(docs[doctorId].availableSlots)
         IN  Reply(200, NoError,
                   [availableSlots |-> AvailableByDay(availableSlots),
                    totalAvailableSlots |-> Len(availableSlots)],
                   docs, idc)

\* ------------------------------------------------------------------------
\* createOrUpdateProfile(req, res): what it does to the slots and what it
\* reports of the approval.  An existing profile keeps its slots; a new one
\* starts with none and without approvedBy.  (The licence number and the
\* other profile fields are left out: no slot depends on them.)

createOrUpdateProfile(user, docs, appr, idc) ==
    IF ~IsDoctor(user)
    THEN Reply(403, "Only doctors can create/update doctor profiles", NoData, docs, idc)
    ELSE IF docs[user.id].profile
    THEN Reply(200, NoError, [isApproved |-> appr[user.id]], docs, idc)
    ELSE Reply(200, NoError, [isApproved |-> FALSE],
               [docs EXCEPT ![user.id] = NewDoctor], idc)

\* ------------------------------------------------------------------------
\* The admin's handlers that decide whether a doctor can be booked

\* approveDoctor: the user is marked approved; Doctor.findOneAndUpdate sets
\* approvedBy on the user's Doctor document when there is one (no upsert).
approveDoctor(id, usrs, docs, appr) ==
    IF id \notin DOMAIN usrs \/ usrs[id].role # "doctor"
    THEN [status |-> 404, error |-> "Doctor not found", users |-> usrs, approvedBy |-> appr]
    ELSE IF usrs[id].isApproved
    THEN [status |-> 400, error |-> "Doctor is already approved",
          users |-> usrs, approvedBy |-> appr]
    ELSE [status |-> 200, error |-> NoError,
          users |-> [usrs EXCEPT ![id].isApproved = TRUE, ![id].isBlocked = FALSE],
          approvedBy |-> [appr EXCEPT ![id] = docs[id].profile]]

\* blockDoctor: the user is marked blocked and not approved; the Doctor
\* document is not touched.
blockDoctor(id, usrs, appr) ==
    IF id \notin DOMAIN usrs \/ usrs[id].role # "doctor"
    THEN [status |-> 404, error |-> "Doctor not found", users |-> usrs, approvedBy |-> appr]
    ELSE IF usrs[id].isBlocked
    THEN [status |-> 400, error |-> "Doctor is already blocked",
          users |-> usrs, approvedBy |-> appr]
    ELSE [status |-> 200, error |-> NoError,
          users |-> [usrs EXCEPT ![id].isBlocked = TRUE, ![id].isApproved = FALSE],
          approvedBy |-> appr]

\* unblockDoctor: the block is lifted; the approval is not given back.
unblockDoctor(id, usrs, appr) ==
    IF id \notin DOMAIN usrs \/ usrs[id].role # "doctor"
    THEN [status |-> 404, error |-> "Doctor not found", users |-> usrs, approvedBy |-> appr]
    ELSE IF ~usrs[id].isBlocked
    THEN [status |-> 400, error |-> "Doctor is not blocked",
          users |-> usrs, approvedBy |-> appr]
    ELSE [status |-> 200, error |-> NoError,
          users |-> [usrs EXCEPT ![id].isBlocked = FALSE],
          approvedBy |-> appr]

\* toggleUserActive
toggleUserActive(admin, id, usrs, appr) ==
    IF id \notin DOMAIN usrs
    THEN [status |-> 404, error |-> "User not found", users |-> usrs, approvedBy |-> appr]
    ELSE IF id = admin.id
    THEN [status |-> 400, error |-> "Cannot deactivate your own account",
          users |-> usrs, approvedBy |-> appr]
    ELSE [status |-> 200, error |-> NoError,
          users |-> [usrs EXCEPT ![id].isActive = ~@],
          approvedBy |-> appr]

\* ------------------------------------------------------------------------
\* Two doctors, a patient and an admin: every handler of the slots called by
\* every account, one request at a time

Accounts == {"u1", "u2", "u3", "u4"}

RoleOf == [u1 |-> "doctor", u2 |-> "doctor", u3 |-> "patient", u4 |-> "admin"]

\* req.user as protect sets it: the account read from the User collection.
Actor(id) == [id |-> id, role |-> users[id].role]

\* protect lets a request through when the account is active and not
\* blocked (the accounts here are verified); a request it turns away with
\* 401 reaches no handler.
protect(id) == users[id].isActive /\ ~users[id].isBlocked

\* The doctorId a request for the available slots may name.
DoctorIds == {"u1", "u2", MalformedId}

\* The account an admin request may name: a doctor, the admin and an id of
\* no account.
AdminTargets == {"u1", "u4", "u9"}

SlotInputsClinic ==
    {SlotIn("Monday", T0900, T0930, Undefined),
     SlotIn("Monday", T0930, T1000, Some(FALSE)),
     SlotIn("Tuesday", T0900, T0945, Undefined),
     SlotIn("Funday", T0900, T1000, Undefined)}

UpdateBodiesClinic == UpdateBodiesOf({T0945}, {Some(TRUE), Some(FALSE)})

\* u1 registered with a Doctor document; for u2 the Doctor.create of
\* register failed, so u2 has none until createOrUpdateProfile makes one.
InitClinic ==
    /\ doctors = [u \in Accounts |-> IF u = "u1" THEN NewDoctor ELSE NoDoctor]
    /\ nextId = 1
    /\ req = NoRequest
    /\ resp = NoResponse
    /\ before = doctors
    /\ inflight = [h \in Handlers |-> Idle]
    /\ oneAtATime = TRUE
    /\ users = [u \in Accounts |-> NewUser(RoleOf[u])]
    /\ approvedBy = [u \in Accounts |-> FALSE]
    /\ appointments = <<>>

CreateOrUpdateProfile(id) ==
    /\ protect(id)
    /\ Serve([op |-> "createOrUpdateProfile", user |-> Actor(id)],
             createOrUpdateProfile(Actor(id), doctors, approvedBy, nextId))

GetTimeSlots(id) ==
    /\ protect(id)
    /\ Serve([op |-> "getTimeSlots", user |-> Actor(id)],
             getTimeSlots(Actor(id), doctors, nextId))

GetAvailableSlotsForPatients(id, doctorId) ==
    /\ protect(id)
    /\ Serve([op |-> "getAvailableSlotsForPatients", user |-> Actor(id),
              doctorId |-> doctorId],
             getAvailableSlotsForPatients(doctorId, doctors, users, approvedBy, nextId))

\* One request of the admin handled from its arrival to its response.
ServeAdmin(request, reply) ==
    /\ req = NoRequest
    /\ req' = request
    /\ resp' = [status |-> reply.status, error |-> reply.error, data |-> NoData]
    /\ before' = doctors
    /\ users' = reply.users
    /\ approvedBy' = reply.approvedBy
    /\ UNCHANGED <<doctors, nextId, inflight, oneAtATime, appointments>>

\* The admin routes sit behind authorize('admin').
ApproveDoctor(admin, id) ==
    /\ protect(admin)
    /\ users[admin].role = "admin"
    /\ ServeAdmin([op |-> "approveDoctor", user |-> Actor(admin), id |-> id],
                  approveDoctor(id, users, doctors, approvedBy))

ToggleUserActive(admin, id) ==
    /\ protect(admin)
    /\ users[admin].role = "admin"
    /\ ServeAdmin([op |-> "toggleUserActive", user |-> Actor(admin), id |-> id],
                  toggleUserActive(Actor(admin), id, users, approvedBy))

NextClinic ==
    \/ \E id \in Accounts : CreateOrUpdateProfile(id)
    \/ \E id \in Accounts, slots \in BatchesOf(SlotInputsClinic) \cup {<<>>} :
            protect(id) /\ AddTimeSlots(Actor(id), slots)
    \/ \E id \in Accounts, slotId \in SlotIds, body \in UpdateBodiesClinic :
            protect(id) /\ UpdateTimeSlot(Actor(id), slotId, body)
    \/ \E id \in Accounts, slotId \in SlotIds :
            protect(id) /\ DeleteTimeSlot(Actor(id), slotId)
    \/ \E id \in Accounts : GetTimeSlots(id)
    \/ \E id \in Accounts, doctorId \in DoctorIds :
            GetAvailableSlotsForPatients(id, doctorId)
    \/ \E admin \in Accounts, id \in AdminTargets : ApproveDoctor(admin, id)
    \/ \E admin \in Accounts, id \in AdminTargets : ToggleUserActive(admin, id)
    \/ Received

SpecClinic == InitClinic /\ [][NextClinic]_vars

\* ------------------------------------------------------------------------
\* Properties of the requests of every account

\* The caller's stored slots, now and when the request arrived.
Mine == StoredOf(doctors, req.user.id)
MineBefore == StoredOf(before, req.user.id)

\* The caller is a doctor with a Doctor document.
ByDoctorWithProfile ==
    req.user.role = "doctor" /\ before[req.user.id].profile

\* The position the named slot had in the caller's collection (0: none).
MyAddressed ==
    IF \E i \in 1..Len(MineBefore) : MineBefore[i].id = req.slotId
    THEN CHOOSE i \in 1..Len(MineBefore) : MineBefore[i].id = req.slotId
    ELSE 0

\* A sequence without its element at position p.
Without(seq, p) ==
    [i \in 1..(Len(seq) - 1) |-> IF i < p THEN seq[i] ELSE seq[i + 1]]

\* C13: deleteSlot with the id of a stored slot of the caller removes that
\* slot and no other: the rest is unchanged, a getSlots that follows does
\* not list the slot and reports a total one lower; with an id the caller
\* has no slot for, it answers 404 and changes nothing.
C13_DeleteExactlyOne ==
    (Deleted /\ ByDoctorWithProfile) =>
        IF MyAddressed # 0
        THEN /\ resp.status = 200
             /\ Mine = Without(MineBefore, MyAddressed)
             /\ \A u \in DOMAIN doctors \ {req.user.id} : doctors[u] = before[u]
             /\ LET got == getTimeSlots(req.user, doctors, nextId)
                IN  /\ got.status = 200
                    /\ got.data.totalSlots = Len(MineBefore) - 1
                    /\ \A d \in DOMAIN got.data.slotsByDay :
                         \A i \in 1..Len(got.data.slotsByDay[d]) :
                            got.data.slotsByDay[d][i].id # req.slotId
        ELSE resp.status = 404 /\ doctors = before

\* C13 is met where it says something: the first of two stored slots was
\* deleted.
C13_Witness ==
    /\ Deleted /\ ByDoctorWithProfile
    /\ resp.status = 200
    /\ Len(MineBefore) = 2
    /\ MyAddressed = 1

Got == req.op = "getTimeSlots"

\* The places <<day, position>> of a grouping.
Places(byDay) ==
    {p \in (DOMAIN byDay) \X (1..MaxIds) : p[2] <= Len(byDay[p[1]])}

\* C14: getSlots lists every stored slot of the doctor once, under the key
\* of its day, has no key for a day without slots, and reports as totalSlots
\* the number of stored slots, the blocked ones included, which is also the
\* number of slots listed.
C14_GetSlotsGrouping ==
    (Got /\ ByDoctorWithProfile) =>
        /\ resp.status = 200
        /\ resp.data.totalSlots = Len(Mine)
        /\ \A d \in DOMAIN resp.data.slotsByDay : Len(resp.data.slotsByDay[d]) > 0
        /\ Cardinality(Places(resp.data.slotsByDay)) = Len(Mine)
        /\ \A i \in 1..Len(Mine) :
            /\ Mine[i].day \in DOMAIN resp.data.slotsByDay
            /\ \E j \in 1..Len(resp.data.slotsByDay[Mine[i].day]) :
                LET listed == resp.data.slotsByDay[Mine[i].day][j]
                IN  /\ listed.id = Mine[i].id
                    /\ listed.startTime = Mine[i].startTime
                    /\ listed.endTime = Mine[i].endTime
                    /\ listed.isAvailable = Mine[i].isAvailable
            /\ Cardinality({p \in Places(resp.data.slotsByDay) :
                    resp.data.slotsByDay[p[1]][p[2]].id = Mine[i].id}) = 1

\* C14 is met where it says something: two slots are stored on different
\* days, one of them blocked.
C14_Witness ==
    /\ Got /\ ByDoctorWithProfile
    /\ resp.status = 200
    /\ Len(Mine) = 2
    /\ Mine[1].day # Mine[2].day
    /\ \E i \in 1..2 : ~Mine[i].isAvailable

GotAvailable == req.op = "getAvailableSlotsForPatients"

\* C15: getSlots and queryAvailableSlots change no slot collection, and a
\* getSlots repeated with no mutation in between gives the same grouping and
\* the same total.
C15_ReadsChangeNothing ==
    (Got \/ GotAvailable) =>
        /\ doctors = before
        /\ Got =>
            LET again == getTimeSlots(req.user, doctors, nextId)
            IN  /\ again.status = resp.status
                /\ again.data = resp.data

\* C15 is met where it says something: getSlots answered a doctor who has
\* two slots stored, one of them blocked.
C15_Witness ==
    /\ Got /\ resp.status = 200
    /\ resp.data.totalSlots = 2
    /\ \E i \in 1..2 : ~Mine[i].isAvailable

\* The doctor record the request names exists.
TargetExists ==
    req.doctorId \in DOMAIN before /\ before[req.doctorId].profile

\* C16: queryAvailableSlots answers 404 when the doctor record named does
\* not exist, the 'not available for appointments' error (400) when the
\* record has no approval grant or its account is inactive, and the slots
\* otherwise, whatever the caller's role; an error reveals no slot.
C16_AvailabilityGate ==
    GotAvailable =>
        /\ IF ~TargetExists
           THEN resp.status = 404
           ELSE IF ~approvedBy[req.doctorId] \/ ~users[req.doctorId].isActive
           THEN /\ resp.status = 400
                /\ resp.error = "Doctor is not available for appointments"
           ELSE resp.status = 200
        /\ resp.status # 200 => resp.data = NoData

\* The doctor named is approved and its account is active.
TargetBookable ==
    TargetExists /\ approvedBy[req.doctorId] /\ users[req.doctorId].isActive

\* The stored slots of the doctor the request names.
Theirs == StoredOf(doctors, req.doctorId)

\* C17: for an approved and active doctor queryAvailableSlots lists exactly
\* the stored slots with isAvailable = true, each once under the key of its
\* day, has no key for a day without such a slot, and reports as
\* totalAvailableSlots their number, which is also the number of slots listed.
C17_ExactlyTheAvailable ==
    (GotAvailable /\ TargetBookable) =>
        /\ resp.status = 200
        /\ \A d \in DOMAIN resp.data.availableSlots :
                Len(resp.data.availableSlots[d]) > 0
        /\ resp.data.totalAvailableSlots =
                Cardinality({i \in 1..Len(Theirs) : Theirs[i].isAvailable})
        /\ resp.data.totalAvailableSlots =
                Cardinality(Places(resp.data.availableSlots))
        /\ \A p \in Places(resp.data.availableSlots) :
                \E i \in 1..Len(Theirs) :
                    /\ Theirs[i].isAvailable
                    /\ Theirs[i].id = resp.data.availableSlots[p[1]][p[2]].slotId
        /\ \A i \in 1..Len(Theirs) :
            Theirs[i].isAvailable =>
                /\ Theirs[i].day \in DOMAIN resp.data.availableSlots
                /\ \E j \in 1..Len(resp.data.availableSlots[Theirs[i].day]) :
                    LET listed == resp.data.availableSlots[Theirs[i].day][j]
                    IN  /\ listed.slotId = Theirs[i].id
                        /\ listed.startTime = Theirs[i].startTime
                        /\ listed.endTime = Theirs[i].endTime
                /\ Cardinality({p \in Places(resp.data.availableSlots) :
                        resp.data.availableSlots[p[1]][p[2]].slotId = Theirs[i].id}) = 1

\* C17 is met where it says something: a patient asked for the slots of an
\* approved and active doctor who has one available and one blocked slot.
C17_Witness ==
    /\ GotAvailable /\ TargetBookable
    /\ req.user.role = "patient"
    /\ resp.status = 200
    /\ Len(Theirs) = 2
    /\ \E i, j \in 1..2 : Theirs[i].isAvailable /\ ~Theirs[j].isAvailable

\* The request is one of the four the doctor's slot routes serve.
SlotRequest == Added \/ Updated \/ Deleted \/ Got

\* C18: addSlots, getSlots, updateSlot and deleteSlot called by a patient or
\* an admin answer 403, whatever the body and the slot id (also for a body or
\* an id that another check would refuse), and change no slot collection.
C18_WrongRoleForbidden ==
    (SlotRequest /\ req.user.role \in {"patient", "admin"}) =>
        (resp.status = 403 /\ doctors = before)

\* C18 is met where it says something: an admin sent addSlots an empty
\* batch, which a doctor would be answered 400 for.
C18_Witness ==
    /\ Added /\ req.user.role = "admin"
    /\ req.slots = <<>>
    /\ resp.status = 403

\* The caller is a doctor without a Doctor document.
ByDoctorWithoutProfile ==
    req.user.role = "doctor" /\ ~before[req.user.id].profile

NamesSlotOfAnother ==
    \E u \in DOMAIN before \ {req.user.id} :
        \E i \in 1..Len(before[u].availableSlots) :
            before[u].availableSlots[i].id = req.slotId

\* C20: addSlots, updateSlot and deleteSlot change no collection but the
\* caller's, and an updateSlot or deleteSlot that names a slot of another
\* doctor answers 404 and changes nothing.
C20_DoctorsIsolated ==
    (Added \/ Updated \/ Deleted) =>
        /\ \A u \in DOMAIN doctors \ {req.user.id} : doctors[u] = before[u]
        /\ ((Updated \/ Deleted) /\ ByDoctorWithProfile /\ NamesSlotOfAnother)
                => (resp.status = 404 /\ doctors = before)

\* C20 is met where it says something: a doctor with a slot of its own
\* named the slot of another doctor in a deleteSlot and was answered 404.
C20_Witness ==
    /\ Deleted /\ ByDoctorWithProfile /\ NamesSlotOfAnother
    /\ Len(MineBefore) = 1
    /\ resp.status = 404

\* ------------------------------------------------------------------------
\* Properties of what the handlers leave unchecked

\* The comparison of addTimeSlots finds the slot overlapping a stored one.
FoundOverlapping(slot, stored) ==
    \E k \in 1..Len(stored) : SlotsOverlap(slot, stored[k])

\* C21: a batch of rule-abiding slots none of which the handler's comparison
\* finds overlapping a slot stored before the call is accepted and stored
\* whole, also when two slots of the batch overlap each other: the batch is
\* compared with the stored slots only, never with itself.
C21_BatchNotCheckedAgainstItself ==
    (/\ Added
     /\ Len(req.slots) > 0
     /\ \A i \in 1..Len(req.slots) :
            ~BreaksRule(req.slots[i]) /\ ~FoundOverlapping(req.slots[i], StoredBefore))
    => /\ resp.status = 200
       /\ Len(Stored) = Len(StoredBefore) + Len(req.slots)
       /\ \A i \in 1..Len(req.slots) :
            LET kept == Stored[Len(StoredBefore) + i]
            IN  /\ kept.day = req.slots[i].day
                /\ kept.startTime = req.slots[i].startTime
                /\ kept.endTime = req.slots[i].endTime

\* C21 is met where it says something: two slots of one batch that overlap
\* each other and no stored slot were both stored.
C21_Witness ==
    /\ Added /\ resp.status = 200
    /\ Len(req.slots) = 2
    /\ \A i \in 1..2 :
        ~BreaksRule(req.slots[i]) /\ ~IntersectsStored(req.slots[i], StoredBefore)
    /\ Intersect(req.slots[1], req.slots[2])
    /\ Len(Stored) = Len(StoredBefore) + 2
    /\ Intersect(Stored[Len(Stored) - 1], Stored[Len(Stored)])

\* C22: an update that gives a start or an end and leaves the slot well
\* formed, with start < end, and that the handler's comparison finds clear
\* of the other stored slots, is accepted and stored, also when the slot
\* then lasts less than 30 minutes: the minimum is not applied on update.
C22_UpdateBelowMinimum ==
    (/\ Updated /\ Addressed # 0
     /\ (req.body.startTime # Undefined \/ req.body.endTime # Undefined)
     /\ IsClockTime(Asked.startTime) /\ IsClockTime(Asked.endTime)
     /\ MinutesOf(Asked.startTime) < MinutesOf(Asked.endTime)
     /\ ~HasOverlap(StoredBefore, Addressed, Asked))
    => /\ resp.status = 200
       /\ Stored[Addressed].startTime = Asked.startTime
       /\ Stored[Addressed].endTime = Asked.endTime

\* C22 is met where it says something: an accepted update left a stored
\* slot of less than 30 minutes that lasted at least 30 minutes before.
C22_Witness ==
    /\ Updated /\ Addressed # 0 /\ resp.status = 200
    /\ req.body.endTime # Undefined
    /\ ~AskedIsBad
    /\ MinutesOf(StoredBefore[Addressed].endTime)
            - MinutesOf(StoredBefore[Addressed].startTime) >= 30
    /\ MinutesOf(Stored[Addressed].endTime) - MinutesOf(Stored[Addressed].startTime) < 30

\* ------------------------------------------------------------------------
\* The overlap predicate on its own: pairs of well-formed slots with
\* start < end, hours written with one digit or two, given to the comparison
\* of addTimeSlots and to the comparison of updateTimeSlot.

TimesOverlap == {T0800s, T0900, T0915s, T0930, T0945, T1000}

SlotInputsOverlap ==
    {SlotIn(day, s, e, Undefined) :
        day \in {"Monday", "Tuesday"},
        s \in TimesOverlap,
        e \in {t \in TimesOverlap : timeRegexTest(t)}}

InitOverlap ==
    /\ doctors = [u \in UserIds |-> IF u = "u1" THEN NewDoctor ELSE NoDoctor]
    /\ nextId = 1
    /\ resp = NoResponse
    /\ before = doctors
    /\ inflight = [h \in Handlers |-> Idle]
    /\ oneAtATime = TRUE
    /\ users = [u \in UserIds |-> NewUser("doctor")]
    /\ approvedBy = [u \in UserIds |-> FALSE]
    /\ appointments = <<>>
    /\ \E newSlot \in SlotInputsOverlap, existing \in SlotInputsOverlap :
        /\ newSlot.day = "Monday"
        /\ timeRegexTest(newSlot.startTime) /\ timeRegexTest(existing.startTime)
        /\ req = [op |-> "overlap", newSlot |-> newSlot, existing |-> existing]

\* The two comparisons applied to the pair: the one of addTimeSlots, and the
\* one of updateTimeSlot with the existing slot at another index.
Compare ==
    /\ req.op = "overlap"
    /\ resp = NoResponse
    /\ resp' = [status |-> 200,
                addTimeSlots |-> BatchOverlaps(<<req.newSlot>>, <<req.existing>>),
                updateTimeSlot |-> HasOverlap(<<req.newSlot, req.existing>>, 1, req.newSlot)]
    /\ UNCHANGED <<doctors, nextId, req, before, inflight, oneAtATime, users, approvedBy, appointments>>

NextOverlap == Compare

SpecOverlap == InitOverlap /\ [][NextOverlap]_vars

\* The pair was compared.
Compared == req.op = "overlap" /\ resp # NoResponse

\* C23: for two same-day slots of accepted format with start < end, hours of
\* one digit included, the overlap decision of addSlots and of updateSlot is
\* the half-open one on the times of day: start < other end and other start
\* < end.
C23_OverlapIsIntersection ==
    (/\ Compared
     /\ MinutesOf(req.newSlot.startTime) < MinutesOf(req.newSlot.endTime)
     /\ MinutesOf(req.existing.startTime) < MinutesOf(req.existing.endTime))
    => /\ resp.addTimeSlots = Intersect(req.newSlot, req.existing)
       /\ resp.updateTimeSlot = Intersect(req.newSlot, req.existing)

\* ------------------------------------------------------------------------
\* Which error a rejected batch is answered with

\* The first rule the slot breaks, in the order day, format, start before
\* end, minimum duration, read on the times of day.
RuleBroken(slot) ==
    IF slot.day \notin Weekdays THEN ErrDay
    ELSE IF ~IsClockTime(slot.startTime) \/ ~IsClockTime(slot.endTime) THEN ErrFormat
    ELSE IF MinutesOf(slot.startTime) >= MinutesOf(slot.endTime) THEN ErrOrder
    ELSE IF MinutesOf(slot.endTime) - MinutesOf(slot.startTime) < 30 THEN ErrDuration
    ELSE NoError

\* The lowest index of a slot of the batch that breaks a rule.
LowestBreaking ==
    CHOOSE i \in 1..Len(req.slots) :
        /\ BreaksRule(req.slots[i])
        /\ \A j \in 1..(i - 1) : ~BreaksRule(req.slots[j])

\* C24: a batch with rule-breaking slots is answered with one error, that
\* of the slot of lowest index that breaks a rule and, of that slot, the
\* first rule broken in the order day, format, start >= end, duration < 30;
\* it is this error and not the overlap error also when a slot of the batch
\* overlaps a stored slot.
C24_FirstErrorReported ==
    (Added /\ \E i \in 1..Len(req.slots) : BreaksRule(req.slots[i]))
    => /\ resp.status = 400
       /\ resp.error = RuleBroken(req.slots[LowestBreaking])

\* ------------------------------------------------------------------------
\* Batches with slots that lack a field

MissingDay == ""

SlotInputsFields ==
    {SlotIn("Monday", T0900, T0930, Undefined),
     SlotIn("Monday", T0900, T1000, Undefined),
     SlotIn("Tuesday", T0900, T0945, Undefined),
     SlotIn("Funday", T0900, T0930, Undefined),
     SlotIn(MissingDay, T0900, T0930, Undefined),
     SlotIn("Monday", Undefined, T0930, Undefined),
     SlotIn("Monday", T0900, Undefined, Undefined)}

NextFields ==
    \/ \E slots \in BatchesOf(SlotInputsFields) : AddTimeSlots(TheDoctor, slots)
    \/ \E slotId \in SlotIds : DeleteTimeSlot(TheDoctor, slotId)
    \/ Received

SpecFields == Init /\ [][NextFields]_vars

\* C25: a batch of a doctor with a profile that is rejected for what its
\* slots contain, a slot lacking day, startTime or endTime included, is
\* answered 400, never 500, and the stored collection is as before the call.
C25_ContentRejectedWith400 ==
    (/\ Added /\ ByDoctorWithProfile
     /\ Len(req.slots) > 0
     /\ resp.status # 200)
    => resp.status = 400 /\ doctors = before

\* ------------------------------------------------------------------------
\* Slot ids

\* The ids of the slots of a collection, in stored order.
IdsOf(slots) == [i \in 1..Len(slots) |-> slots[i].id]

\* The set of ids stored in any collection.
IdsIn(docs) ==
    UNION {{docs[u].availableSlots[i].id : i \in 1..Len(docs[u].availableSlots)} :
                u \in DOMAIN docs}

\* C26: within a doctor's collection no two slots have the same id, in every
\* reachable state; a slot gets its id when it is added, an id that no slot
\* had before; an accepted update leaves every id where it was; and so an
\* accepted deleteSlot removes exactly one slot, the one of the id named.
C26_SlotIdsDistinct ==
    /\ \A u \in DOMAIN doctors :
         \A i, j \in 1..Len(doctors[u].availableSlots) :
            i # j => doctors[u].availableSlots[i].id # doctors[u].availableSlots[j].id
    /\ IdsIn(doctors) \subseteq 1..(nextId - 1)
    /\ (Added /\ resp.status = 200) =>
            /\ SubSeq(IdsOf(Mine), 1, Len(MineBefore)) = IdsOf(MineBefore)
            /\ \A i \in (Len(MineBefore) + 1)..Len(Mine) : Mine[i].id \notin IdsIn(before)
    /\ (Updated /\ resp.status = 200) => IdsOf(Mine) = IdsOf(MineBefore)
    /\ (Deleted /\ resp.status = 200) =>
            /\ Len(Mine) = Len(MineBefore) - 1
            /\ {Mine[i].id : i \in 1..Len(Mine)}
                    = {MineBefore[i].id : i \in 1..Len(MineBefore)} \ {req.slotId}

\* C26 is met where it says something: of two slots stored under different
\* ids, one was deleted by its id and the other stays.
C26_Witness ==
    /\ Deleted /\ resp.status = 200
    /\ Len(MineBefore) = 2 /\ Len(Mine) = 1
    /\ nextId = 3
    /\ Mine[1].id # req.slotId

\* ------------------------------------------------------------------------
\* Added slots under interleaved requests

\* Handler h answers its request in this step.
Answers(h) == inflight[h].pc = "loaded" /\ inflight'[h].pc = "done"

\* C27: a slot addSlots answered success for is stored from then on, and a
\* stored slot leaves the collection only in the step in which a deleteSlot
\* naming its id answers success; this also with a deleteSlot or updateSlot
\* for another slot in flight, which read the collection before the slot
\* was added.
C27_AddedSlotsStay ==
    [][/\ \A h \in Handlers :
            (/\ Answers(h)
             /\ inflight'[h].req.op = "addTimeSlots"
             /\ inflight'[h].status = 200)
            => \E i \in 1..Len(Stored') :
                    /\ Stored'[i].id \notin IdsIn(doctors)
                    /\ Stored'[i].day = inflight[h].req.slots[1].day
                    /\ Stored'[i].startTime = inflight[h].req.slots[1].startTime
                    /\ Stored'[i].endTime = inflight[h].req.slots[1].endTime
       /\ \A id \in IdsIn(doctors) \ IdsIn(doctors') :
            \E h \in Handlers :
                /\ Answers(h)
                /\ inflight'[h].req.op = "deleteTimeSlot"
                /\ inflight'[h].req.slotId = id
                /\ inflight'[h].status = 200]_vars

\* C27 is met where it says something: of two interleaved requests the
\* addSlots was answered success, the deleteSlot for the slot stored
\* earlier, which had read the collection before the new slot was saved, was
\* refused, and both slots are stored.
C27_Witness ==
    /\ ~oneAtATime
    /\ \E h, g \in Handlers :
        /\ inflight[h].pc = "done" /\ inflight[g].pc = "done"
        /\ inflight[h].req.op = "addTimeSlots" /\ inflight[h].status = 200
        /\ inflight[g].req.op = "deleteTimeSlot" /\ inflight[g].status = 500
        /\ inflight[g].req.slotId \in IdsIn(doctors)
    /\ Len(Stored) = 2

\* ------------------------------------------------------------------------
\* A doctor approved, blocked, unblocked and approved again by the admin,
\* and a patient asking for the doctor's available slots in between

BlockDoctor(admin, id) ==
    /\ protect(admin)
    /\ users[admin].role = "admin"
    /\ ServeAdmin([op |-> "blockDoctor", user |-> Actor(admin), id |-> id],
                  blockDoctor(id, users, approvedBy))

UnblockDoctor(admin, id) ==
    /\ protect(admin)
    /\ users[admin].role = "admin"
    /\ ServeAdmin([op |-> "unblockDoctor", user |-> Actor(admin), id |-> id],
                  unblockDoctor(id, users, approvedBy))

NextAdmin ==
    \/ \E slots \in BatchesOf(SlotInputsClinic) :
            protect("u1") /\ AddTimeSlots(Actor("u1"), slots)
    \/ \E id \in AdminTargets : ApproveDoctor("u4", id)
    \/ \E id \in AdminTargets : BlockDoctor("u4", id)
    \/ \E id \in AdminTargets : UnblockDoctor("u4", id)
    \/ \E doctorId \in DoctorIds : GetAvailableSlotsForPatients("u3", doctorId)
    \/ Received

SpecAdmin == InitClinic /\ [][NextAdmin]_vars

\* C28: while a doctor is blocked (from the admin's block of the approved
\* doctor until the doctor is approved again), queryAvailableSlots for that
\* doctor returns no slots: it fails with 'not available for appointments'.
C28_BlockedNotBookable ==
    (/\ GotAvailable /\ TargetExists
     /\ users[req.doctorId].isBlocked)
    => /\ resp.status = 400
       /\ resp.error = "Doctor is not available for appointments"

\* ------------------------------------------------------------------------
\* Appointments: bookAppointment and cancelAppointment of the patient,
\* updateAppointmentStatus of the doctor.  An appointment's _id is its place
\* in the collection; `new Date()` is a fixed instant, and a date is known
\* by the hours from that instant to it.

HoursUntil == [past |-> 0 - 24, soon |-> 12, later |-> 48]

\* An appointment id that is no ObjectId: findById throws a CastError.
MalformedAppointmentId == 0 - 1

BookReply(status, error, appts) ==
    [status |-> status, error |-> error, appointments |-> appts]

\* new Appointment({...}): the fields the handlers read later.
NewAppointment(user, body) ==
    [doctorId |-> body.doctorId,
     patientId |-> user.id,
     date |-> body.date,
     timeSlot |-> body.timeSlot,
     status |-> "pending",
     reasonForCancellation |-> ""]

\* await appointment.save() of a new document: one more document in the
\* collection, whatever the collection holds.
Inserted(appts, appointment) == Append(appts, appointment)

\* bookAppointment(req, res); a missing field of the body is "".
bookAppointment(user, body, docs, appr, appts) ==
    IF user.role # "patient"
    THEN BookReply(403, "Only patients can book appointments", appts)
    ELSE IF body.doctorId = "" \/ body.date = "" \/ body.timeSlot = ""
    THEN BookReply(400, "Doctor ID, date, and time slot are required", appts)
    ELSE IF body.doctorId = MalformedId
    THEN BookReply(500, "Server error while booking appointment", appts)
    ELSE IF body.doctorId \notin DOMAIN docs
            \/ ~docs[body.doctorId].profile \/ ~appr[body.doctorId]
    THEN BookReply(404, "Doctor not found or not approved", appts)
    ELSE IF HoursUntil[body.date] < 0
    THEN BookReply(400, "Cannot book appointments in the past", appts)
    ELSE BookReply(201, NoError, Inserted(appts, NewAppointment(user, body)))

\* A test that lets every appointment not yet cancelled be cancelled.
CancellableUnlessCancelled(status) == status # "cancelled"

\* !['cancelled', 'completed', 'rejected'].includes(appointment.status)
Cancellable(status) == status \notin {"cancelled", "completed", "rejected"}

\* cancelAppointment(req, res); a body without reason has reason "".
cancelAppointment(user, id, reason, appts) ==
    IF user.role # "patient"
    THEN BookReply(403, "Only patients can cancel appointments", appts)
    ELSE IF id = MalformedAppointmentId
    THEN BookReply(500, "Server error while cancelling appointment", appts)
    ELSE IF id \notin DOMAIN appts
    THEN BookReply(404, "Appointment not found", appts)
    ELSE IF appts[id].patientId # user.id
    THEN BookReply(403, "Not authorized to cancel this appointment", appts)
    ELSE IF ~Cancellable(appts[id].status)
    THEN BookReply(400, "Appointment is already " \o appts[id].status, appts)
    ELSE IF HoursUntil[appts[id].date] < 24 /\ HoursUntil[appts[id].date] > 0
    THEN BookReply(400,
            "Appointments can only be cancelled at least 24 hours in advance", appts)
    ELSE BookReply(200, NoError,
            [appts EXCEPT
                ![id].status = "cancelled",
                ![id].reasonForCancellation =
                    IF reason = "" THEN "Patient cancelled" ELSE reason])

validStatuses == {"pending", "confirmed", "completed", "cancelled", "rejected"}

\* updateAppointmentStatus(req, res)
updateAppointmentStatus(user, id, status, docs, appts) ==
    IF user.role # "doctor"
    THEN BookReply(403, "Only doctors can update appointment status", appts)
    ELSE IF status \notin validStatuses
    THEN BookReply(400, "Invalid status value", appts)
    ELSE IF ~docs[user.id].profile
    THEN BookReply(404, "Doctor profile not found", appts)
    ELSE IF id = MalformedAppointmentId
    THEN BookReply(500, "Server error while updating appointment status", appts)
    ELSE IF id \notin DOMAIN appts
    THEN BookReply(404, "Appointment not found", appts)
    ELSE IF appts[id].doctorId # user.id
    THEN BookReply(403, "Not authorized to update this appointment", appts)
    ELSE BookReply(200, NoError, [appts EXCEPT ![id].status = status])

\* A doctor, two patients and the admin.
AccountsBooking == {"u1", "u3", "u4", "u5"}

RoleOfBooking == [u1 |-> "doctor", u3 |-> "patient", u4 |-> "admin", u5 |-> "patient"]

MaxAppointments == 2

BodiesBooking ==
    [doctorId : {"u1"}, date : {"soon", "later"}, timeSlot : {"09:00-09:30", "10:00-10:30"}]
    \cup {[doctorId |-> "u1", date |-> "past", timeSlot |-> "09:00-09:30"],
          [doctorId |-> "u1", date |-> "later", timeSlot |-> ""],
          [doctorId |-> "u9", date |-> "later", timeSlot |-> "09:00-09:30"],
          [doctorId |-> MalformedId, date |-> "later", timeSlot |-> "09:00-09:30"]}

\* The ids a request may name: ids of stored appointments, ids of none
\* and the malformed one.
AppointmentIds == (0..MaxAppointments) \cup {MalformedAppointmentId}

StatusesBooking == {"confirmed", "completed", "rejected", "on hold"}

InitBooking ==
    /\ doctors = [u \in AccountsBooking |-> IF u = "u1" THEN NewDoctor ELSE NoDoctor]
    /\ nextId = 1
    /\ req = NoRequest
    /\ resp = NoResponse
    /\ before = doctors
    /\ inflight = [h \in Handlers |-> Idle]
    /\ oneAtATime = TRUE
    /\ users = [u \in AccountsBooking |-> NewUser(RoleOfBooking[u])]
    /\ approvedBy = [u \in AccountsBooking |-> FALSE]
    /\ appointments = <<>>

\* One request about appointments handled from its arrival to its response.
ServeBooking(request, reply) ==
    /\ req = NoRequest
    /\ req' = request
    /\ resp' = [status |-> reply.status, error |-> reply.error, data |-> NoData]
    /\ before' = doctors
    /\ appointments' = reply.appointments
    /\ UNCHANGED <<doctors, nextId, inflight, oneAtATime, users, approvedBy>>

BookAppointment(id, body) ==
    /\ protect(id)
    /\ Len(appointments) < MaxAppointments
    /\ ServeBooking([op |-> "bookAppointment", user |-> Actor(id), body |-> body],
                    bookAppointment(Actor(id), body, doctors, approvedBy, appointments))

CancelAppointment(id, appointmentId, reason) ==
    /\ protect(id)
    /\ ServeBooking([op |-> "cancelAppointment", user |-> Actor(id),
                     id |-> appointmentId, reason |-> reason],
                    cancelAppointment(Actor(id), appointmentId, reason, appointments))

UpdateAppointmentStatus(id, appointmentId, status) ==
    /\ protect(id)
    /\ ServeBooking([op |-> "updateAppointmentStatus", user |-> Actor(id),
                     id |-> appointmentId, status |-> status],
                    updateAppointmentStatus(Actor(id), appointmentId, status,
                                            doctors, appointments))

NextBooking ==
    \/ ApproveDoctor("u4", "u1")
    \/ \E id \in {"u1", "u3", "u5"}, body \in BodiesBooking : BookAppointment(id, body)
    \/ \E id \in {"u1", "u3", "u5"}, appointmentId \in AppointmentIds,
          reason \in {"", "Travelling"} :
            CancelAppointment(id, appointmentId, reason)
    \/ \E appointmentId \in AppointmentIds, status \in StatusesBooking :
            UpdateAppointmentStatus("u1", appointmentId, status)
    \/ Received

SpecBooking == InitBooking /\ [][NextBooking]_vars

\* The appointment holds its slot: it is pending or confirmed.
Active(appointment) == appointment.status \in {"pending", "confirmed"}

\* C29: there are never two appointments with status pending or confirmed
\* for the same doctor, date and time slot.
C29_NoDoubleBooking ==
    \A i, j \in DOMAIN appointments :
        (/\ i < j
         /\ Active(appointments[i]) /\ Active(appointments[j])
         /\ appointments[i].doctorId = appointments[j].doctorId
         /\ appointments[i].date = appointments[j].date)
        => appointments[i].timeSlot # appointments[j].timeSlot

\* The step is the handling of a cancelAppointment request.
Cancels == req = NoRequest /\ req'.op = "cancelAppointment"

\* The caller of the cancelAppointment owns the appointment named, and the
\* appointment is pending or confirmed.
OwnerOfActive ==
    /\ req'.id \in DOMAIN appointments
    /\ appointments[req'.id].patientId = req'.user.id
    /\ req'.user.role = "patient"
    /\ Active(appointments[req'.id])

\* C30: a cancelAppointment changes nothing of the appointments but the
\* status of the one named, to 'cancelled' (and with it the reason of the
\* cancellation), and that only when the caller is the patient who owns it
\* and its status is pending or confirmed; otherwise it answers with an
\* error and every appointment is as it was.
C30_CancelOnlyOwnActive ==
    [][Cancels =>
        /\ resp'.status = 200 =>
            /\ OwnerOfActive
            /\ appointments' =
                    [appointments EXCEPT
                        ![req'.id].status = "cancelled",
                        ![req'.id].reasonForCancellation =
                            appointments'[req'.id].reasonForCancellation]
        /\ resp'.status # 200 =>
            /\ resp'.status >= 400
            /\ appointments' = appointments
        /\ ~OwnerOfActive => resp'.status # 200]_vars

\* C30 is met where it says something: a confirmed appointment more than a
\* day ahead was cancelled by the patient who booked it, while another
\* appointment is stored.
C30_Witness ==
    /\ req.op = "cancelAppointment" /\ resp.status = 200
    /\ Len(appointments) = 2
    /\ appointments[req.id].status = "cancelled"
    /\ appointments[req.id].patientId = req.user.id
    /\ \E i \in DOMAIN appointments : i # req.id /\ appointments[i].status = "confirmed"

====
